---------------------------- MODULE Spec2Model ----------------------------
(***************************************************************************)
(* Model of google_news_search.py: the profile store (search_profiles.json *)
(* read and rewritten whole by load_profiles / save_profiles), the four    *)
(* CLI subcommands of main (use, add, edit, del) and the result archive    *)
(* written by SearchProfile.save_as_json.                                  *)
(*                                                                         *)
(* Python strings that are processed character by character (file names,   *)
(* dates, every value that argparse delivers with type=str) are sequences  *)
(* of one-character strings.  Dictionary keys, profile names and modes are *)
(* TLA+ strings.  JSON / Python values of different types are kept apart   *)
(* by one-field records: 50 is [int |-> 50], "50" is [str |-> <<"5","0">>].*)
(***************************************************************************)
EXTENDS Integers, Sequences, FiniteSets, TLC

VARIABLES
    profilesFile,      \* search_profiles.json on disk
    archives,          \* the files of ./google_news_search_result, by file name
    argv,              \* the arguments of the last run
    profile,           \* the SearchProfile object built by the last run, if any
    outcome,           \* how the last run ended
    searched,          \* the last run called the news provider
    prevProfilesFile,  \* search_profiles.json before the last run
    prevArchives,      \* the archive folder before the last run
    repeated,          \* the last save_as_json repeated the batch of the one before
    loaded,            \* what load_profiles gave the last run
    runs               \* number of runs so far

vars == <<profilesFile, archives, argv, profile, outcome, searched,
          prevProfilesFile, prevArchives, repeated, loaded, runs>>

----------------------------------------------------------------------------
(* Bounds of the model. *)

\* longest query drawn in SpecName
MaxQueryLen == 2
\* longest batch of results handed to save_as_json in SpecArchive
MaxBatch == 2
\* longest archive written in SpecArchive
MaxArchive == 3
\* number of --att options of one edit
MaxAtt == 2
\* number of runs of the command-line tool in Spec
MaxRuns == 3

----------------------------------------------------------------------------
(* Values. *)

JInt(n) == [int |-> n]
JStr(s) == [str |-> s]
JList(l) == [list |-> l]
JNone == [none |-> TRUE]

IsStr(v) == DOMAIN v = {"str"}

\* Python truthiness of the values a profile field can hold
Truthy(v) ==
    CASE DOMAIN v = {"none"} -> FALSE
      [] DOMAIN v = {"str"} -> Len(v.str) > 0
      [] DOMAIN v = {"list"} -> Len(v.list) > 0
      [] DOMAIN v = {"int"} -> v.int # 0
      [] OTHER -> TRUE

SeqsUpTo(S, n) == UNION {[1..k -> S] : k \in 0..n}

RECURSIVE SelectRecs(_, _)
\* [item for item in s if item["url"] not in links]
SelectRecs(s, links) ==
    IF s = <<>> THEN <<>>
    ELSE IF Head(s).url \notin links
         THEN <<Head(s)>> \o SelectRecs(Tail(s), links)
         ELSE SelectRecs(Tail(s), links)

EmptyMap == [k \in {} |-> JNone]

MapPut(m, k, v) == [x \in DOMAIN m \cup {k} |-> IF x = k THEN v ELSE m[x]]

MapDel(m, k) == [x \in DOMAIN m \ {k} |-> m[x]]

----------------------------------------------------------------------------
(* clean_filename *)

\* the character class of the pattern r'[\/:*?"<>|]': the leading \/ is an
\* escaped slash, so the class holds eight characters and no backslash
UnsafeClass == {"/", ":", "*", "?", "\"", "<", ">", "|"}

\* re.sub(r'[\/:*?"<>|]', '_', filename)
clean_filename(filename) ==
    [i \in 1..Len(filename) |->
        IF filename[i] \in UnsafeClass THEN "_" ELSE filename[i]]

DotJson == <<".", "j", "s", "o", "n">>

\* f"{self.language}_{self.country}_{self.query}.json"
RawFileName(p) ==
    p.language.str \o <<"_">> \o p.country.str \o <<"_">> \o p.query.str \o DotJson

\* file_name of save_as_json
FileName(p) == clean_filename(RawFileName(p))

----------------------------------------------------------------------------
(* The result archive. *)

ListFile(l) == [kind |-> "list", data |-> l]
\* a file that is not JSON, a file holding JSON that is not an array, and a
\* file that is not UTF-8
InvalidFile == [kind |-> "invalid", data |-> <<>>]
NonListFile == [kind |-> "nonlist", data |-> <<>>]
UndecodableFile == [kind |-> "undecodable", data |-> <<>>]

\* load_existing_data: the list read, or raised when f.read() fails to decode
load_existing_data(files, file_name) ==
    IF file_name \notin DOMAIN files
    THEN [raised |-> FALSE, data |-> <<>>]
    ELSE CASE files[file_name].kind = "list" ->
                 [raised |-> FALSE, data |-> files[file_name].data]
           [] files[file_name].kind = "invalid" ->
                 [raised |-> FALSE, data |-> <<>>]
           [] files[file_name].kind = "nonlist" ->
                 [raised |-> FALSE, data |-> <<>>]
           [] OTHER -> [raised |-> TRUE, data |-> <<>>]

\* a variant that appends the whole batch
combined_results_NoFilter(existing_results, results) ==
    existing_results \o results

RECURSIVE DedupRecs(_, _)
DedupRecs(s, links) ==
    IF s = <<>> THEN <<>>
    ELSE IF Head(s).url \notin links
         THEN <<Head(s)>> \o DedupRecs(Tail(s), links \cup {Head(s).url})
         ELSE DedupRecs(Tail(s), links)

\* a variant that also filters the batch against itself
combined_results_Incremental(existing_results, results) ==
    existing_results \o
        DedupRecs(results, {existing_results[i].url : i \in DOMAIN existing_results})

\* existing_links and combined_results of save_as_json
combined_results(existing_results, results) ==
    LET existing_links == {existing_results[i].url : i \in DOMAIN existing_results}
    IN  existing_results \o SelectRecs(results, existing_links)

\* save_as_json: the folder afterwards, or raised with the folder untouched
save_as_json(files, p) ==
    LET file_name == FileName(p)
        existing == load_existing_data(files, file_name)
    IN  IF existing.raised
        THEN [raised |-> TRUE, files |-> files]
        ELSE [raised |-> FALSE,
              files |-> MapPut(files, file_name,
                               ListFile(combined_results(existing.data, p.results)))]

----------------------------------------------------------------------------
(* Dates: datetime.strptime(s, "%Y-%m-%d") and strftime("%Y-%m-%d"). *)

DigitChars == <<"0", "1", "2", "3", "4", "5", "6", "7", "8", "9">>

IsDigit(c) == \E i \in 1..10 : DigitChars[i] = c

DigitVal(c) == (CHOOSE i \in 1..10 : DigitChars[i] = c) - 1

DigitChar(n) == DigitChars[n + 1]

RECURSIVE NumVal(_)
NumVal(t) ==
    IF t = <<>> THEN 0
    ELSE 10 * NumVal(SubSeq(t, 1, Len(t) - 1)) + DigitVal(t[Len(t)])

\* the directive %m: 1[0-2]|0[1-9]|[1-9]
MonthToken(t) ==
    \/ Len(t) = 1 /\ IsDigit(t[1]) /\ t[1] # "0"
    \/ Len(t) = 2 /\ t[1] = "0" /\ IsDigit(t[2]) /\ t[2] # "0"
    \/ Len(t) = 2 /\ t[1] = "1" /\ t[2] \in {"0", "1", "2"}

\* the directive %d: 3[01]|[12]\d|0[1-9]|[1-9]| [1-9]
DayToken(t) ==
    \/ Len(t) = 1 /\ IsDigit(t[1]) /\ t[1] # "0"
    \/ Len(t) = 2 /\ t[1] \in {"0", " "} /\ IsDigit(t[2]) /\ t[2] # "0"
    \/ Len(t) = 2 /\ t[1] \in {"1", "2"} /\ IsDigit(t[2])
    \/ Len(t) = 2 /\ t[1] = "3" /\ t[2] \in {"0", "1"}

DayVal(t) == IF t[1] = " " THEN DigitVal(t[2]) ELSE NumVal(t)

IsLeap(y) == (y % 4 = 0 /\ y % 100 # 0) \/ y % 400 = 0

DaysIn(y, m) ==
    IF m = 2 THEN (IF IsLeap(y) THEN 29 ELSE 28)
    ELSE IF m \in {4, 6, 9, 11} THEN 30 ELSE 31

\* the positions at which the second dash of YYYY-m-d can stand
SecondDash(s) ==
    {j \in {7, 8} :
        /\ j < Len(s)
        /\ s[j] = "-"
        /\ MonthToken(SubSeq(s, 6, j - 1))
        /\ DayToken(SubSeq(s, j + 1, Len(s)))}

\* strptime: the date <<y, m, d>>, or raised (ValueError) when the string does
\* not match the format or names no day of the calendar
strptime(s) ==
    IF /\ Len(s) >= 8
       /\ \A i \in 1..4 : IsDigit(s[i])
       /\ s[5] = "-"
       /\ SecondDash(s) # {}
    THEN LET j == CHOOSE k \in SecondDash(s) : TRUE
             y == NumVal(SubSeq(s, 1, 4))
             m == NumVal(SubSeq(s, 6, j - 1))
             d == DayVal(SubSeq(s, j + 1, Len(s)))
         IN  IF y >= 1 /\ d <= DaysIn(y, m)
             THEN [raised |-> FALSE, date |-> <<y, m, d>>]
             ELSE [raised |-> TRUE, date |-> <<>>]
    ELSE [raised |-> TRUE, date |-> <<>>]

\* strftime("%Y-%m-%d") of a date whose year has four digits
strftime(date) ==
    <<DigitChar(date[1] \div 1000), DigitChar((date[1] \div 100) % 10),
      DigitChar((date[1] \div 10) % 10), DigitChar(date[1] % 10), "-",
      DigitChar(date[2] \div 10), DigitChar(date[2] % 10), "-",
      DigitChar(date[3] \div 10), DigitChar(date[3] % 10)>>

JDate(d) == [date |-> d]

----------------------------------------------------------------------------
(* SearchProfile *)

NoProfile == [noprofile |-> TRUE]

\* the default of the parameter max_results
DefaultMaxResults == 100

\* one date parameter of the constructor: None when falsy, else parsed
ParseDateArg(v) ==
    IF ~Truthy(v) THEN [raised |-> FALSE, value |-> JNone]
    ELSE IF ~IsStr(v) THEN [raised |-> TRUE, value |-> JNone]
    ELSE LET r == strptime(v.str)
         IN  IF r.raised THEN [raised |-> TRUE, value |-> JNone]
             ELSE [raised |-> FALSE, value |-> JDate(r.date)]

\* SearchProfile.__init__ on keyword arguments kw (proxy is never passed):
\* the object, or raised (ValueError) by strptime
SearchProfile(kw) ==
    LET sd == ParseDateArg(kw.start_date)
        ed == ParseDateArg(kw.end_date)
    IN  IF sd.raised \/ ed.raised
        THEN [raised |-> TRUE, obj |-> NoProfile]
        ELSE [raised |-> FALSE,
              obj |-> [language |-> kw.language,
                       country |-> kw.country,
                       period |-> kw.period,
                       start_date |-> sd.value,
                       end_date |-> ed.value,
                       max_results |-> kw.max_results,
                       exclude_websites |->
                           IF Truthy(kw.exclude_websites)
                           THEN kw.exclude_websites ELSE JList(<<>>),
                       proxy |-> EmptyMap,
                       query |-> kw.query,
                       results |-> <<>>]]

ProfileKeys ==
    {"language", "country", "period", "start_date", "end_date",
     "max_results", "exclude_websites", "query"}

\* SearchProfile.to_dict
to_dict(p) ==
    [k \in ProfileKeys |->
        CASE k = "language" -> p.language
          [] k = "country" -> p.country
          [] k = "period" -> p.period
          [] k = "start_date" ->
                IF Truthy(p.start_date) THEN JStr(strftime(p.start_date.date)) ELSE JNone
          [] k = "end_date" ->
                IF Truthy(p.end_date) THEN JStr(strftime(p.end_date.date)) ELSE JNone
          [] k = "max_results" -> p.max_results
          [] k = "exclude_websites" -> p.exclude_websites
          [] OTHER -> p.query]

\* SearchProfile.from_dict: SearchProfile(**data) on a stored record, which
\* holds exactly the keys of to_dict
from_dict(data) ==
    SearchProfile([language |-> data["language"],
                   country |-> data["country"],
                   period |-> data["period"],
                   start_date |-> data["start_date"],
                   end_date |-> data["end_date"],
                   max_results |-> data["max_results"],
                   exclude_websites |-> data["exclude_websites"],
                   query |-> data["query"]])

----------------------------------------------------------------------------
(* The profile store. *)

\* search_profiles.json: absent, not JSON, not UTF-8, the JSON array [],
\* or a JSON object mapping names to stored profiles
AbsentStore == [kind |-> "absent", data |-> EmptyMap]
InvalidStore == [kind |-> "invalid", data |-> EmptyMap]
UndecodableStore == [kind |-> "undecodable", data |-> EmptyMap]
ArrayStore == [kind |-> "array", data |-> EmptyMap]
ObjectStore(m) == [kind |-> "object", data |-> m]

\* load_profiles: what json.load returned (a dict, or the list [] of an array
\* file), {} when the file is absent or json.load raised JSONDecodeError, or
\* the exception that the except clause does not name
load_profiles(file) ==
    CASE file.kind = "absent" -> [exc |-> "none", isdict |-> TRUE, data |-> EmptyMap]
      [] file.kind = "invalid" -> [exc |-> "none", isdict |-> TRUE, data |-> EmptyMap]
      [] file.kind = "undecodable" ->
            [exc |-> "UnicodeDecodeError", isdict |-> FALSE, data |-> EmptyMap]
      [] file.kind = "array" -> [exc |-> "none", isdict |-> FALSE, data |-> EmptyMap]
      [] OTHER -> [exc |-> "none", isdict |-> TRUE, data |-> file.data]

\* save_profiles
save_profiles(profiles) == ObjectStore(profiles)

\* args.name in profiles
NameIn(name, profiles) == profiles.isdict /\ name \in DOMAIN profiles.data

----------------------------------------------------------------------------
(* One run of main.  A run ends by returning ("ok", or "not_found" / "usage" *)
(* after logging an error) or by raising exc out of the body of the try.     *)

Returned(how, store, files, obj, didSearch) ==
    [exc |-> "none", returned |-> how, store |-> store, files |-> files,
     obj |-> obj, searched |-> didSearch]

Raised(exc, store, files, obj, didSearch) ==
    [exc |-> exc, returned |-> "no", store |-> store, files |-> files,
     obj |-> obj, searched |-> didSearch]

\* the exceptions of the model that derive from Exception
ExceptionClasses == {"KeyError", "TypeError", "ValueError", "UnicodeDecodeError"}

\* a variant of the handler: except ValueError
main_except_ValueError(exc) ==
    IF exc \in {"ValueError", "UnicodeDecodeError"} THEN "caught" ELSE "unhandled"

\* except Exception as e, the handler of main's try
main_except(exc) ==
    IF exc \in ExceptionClasses THEN "caught" ELSE "unhandled"

\* how the run ended
Outcome(r) == IF r.exc = "none" THEN r.returned ELSE main_except(r.exc)

\* mode 'use': from_dict, google_news_search with the provider's answer news,
\* save_as_json
use_mode(store, files, name, news) ==
    LET profiles == load_profiles(store)
    IN  IF profiles.exc # "none"
        THEN Raised(profiles.exc, store, files, NoProfile, FALSE)
        ELSE IF ~NameIn(name, profiles)
        THEN Returned("not_found", store, files, NoProfile, FALSE)
        ELSE LET made == from_dict(profiles.data[name])
             IN  IF made.raised
                 THEN Raised("ValueError", store, files, NoProfile, FALSE)
                 ELSE LET p == [made.obj EXCEPT !.results = news]
                          saved == save_as_json(files, p)
                      IN  IF saved.raised
                          THEN Raised("UnicodeDecodeError", store, files, p, TRUE)
                          ELSE Returned("ok", store, saved.files, p, TRUE)

\* mode 'add'
add_mode(store, files, name, kw) ==
    LET profiles == load_profiles(store)
        made == SearchProfile(kw)
    IN  IF profiles.exc # "none"
        THEN Raised(profiles.exc, store, files, NoProfile, FALSE)
        ELSE IF made.raised
        THEN Raised("ValueError", store, files, NoProfile, FALSE)
        ELSE IF ~profiles.isdict
        THEN Raised("TypeError", store, files, made.obj, FALSE)
        ELSE Returned("ok",
                      save_profiles(MapPut(profiles.data, name, to_dict(made.obj))),
                      files, made.obj, FALSE)

NoAtt == JNone

\* updates = {key: value for key, value in args.att}: the value of key
UpdateOf(att, key) ==
    att[CHOOSE i \in DOMAIN att :
            /\ att[i][1] = key
            /\ \A j \in DOMAIN att : att[j][1] = key => j <= i][2]

UpdateKeys(att) == {att[i][1] : i \in DOMAIN att}

\* a variant that stores every key of the updates
updated_profile_data_AddAll(profile_data, att) ==
    [k \in DOMAIN profile_data \cup UpdateKeys(att) |->
        IF k \in UpdateKeys(att) THEN JStr(UpdateOf(att, k)) ELSE profile_data[k]]

\* the loop of edit_profile over updates.items()
updated_profile_data(profile_data, att) ==
    [k \in DOMAIN profile_data |->
        IF k \in UpdateKeys(att) THEN JStr(UpdateOf(att, k)) ELSE profile_data[k]]

\* a variant that saves what it loaded before it looks the name up
edit_profile_SaveFirst(store, files, name, att) ==
    LET profiles == load_profiles(store)
    IN  IF profiles.exc # "none"
        THEN Raised(profiles.exc, store, files, NoProfile, FALSE)
        ELSE IF ~NameIn(name, profiles)
        THEN Returned("not_found",
                      IF profiles.isdict THEN save_profiles(profiles.data) ELSE store,
                      files, NoProfile, FALSE)
        ELSE IF att = NoAtt
        THEN Returned("ok", store, files, NoProfile, FALSE)
        ELSE IF \E i \in DOMAIN att.list : Len(att.list[i]) # 2
        THEN Raised("ValueError", store, files, NoProfile, FALSE)
        ELSE Returned("ok",
                      save_profiles([profiles.data EXCEPT ![name] =
                          updated_profile_data(profiles.data[name], att.list)]),
                      files, NoProfile, FALSE)

\* mode 'edit': edit_profile(args), which loads the store as main just did
edit_profile(store, files, name, att) ==
    LET profiles == load_profiles(store)
    IN  IF profiles.exc # "none"
        THEN Raised(profiles.exc, store, files, NoProfile, FALSE)
        ELSE IF ~NameIn(name, profiles)
        THEN Returned("not_found", store, files, NoProfile, FALSE)
        ELSE IF att = NoAtt
        THEN Returned("ok", store, files, NoProfile, FALSE)
        ELSE IF \E i \in DOMAIN att.list : Len(att.list[i]) # 2
        THEN Raised("ValueError", store, files, NoProfile, FALSE)
        ELSE Returned("ok",
                      save_profiles([profiles.data EXCEPT ![name] =
                          updated_profile_data(profiles.data[name], att.list)]),
                      files, NoProfile, FALSE)

\* mode 'del'
del_mode(store, files, name) ==
    LET profiles == load_profiles(store)
    IN  IF profiles.exc # "none"
        THEN Raised(profiles.exc, store, files, NoProfile, FALSE)
        ELSE IF ~profiles.isdict
        THEN Raised("TypeError", store, files, NoProfile, FALSE)
        ELSE IF name \notin DOMAIN profiles.data
        THEN Raised("KeyError", store, files, NoProfile, FALSE)
        ELSE Returned("ok", save_profiles(MapDel(profiles.data, name)),
                      files, NoProfile, FALSE)

\* arguments that parse_args rejects: SystemExit is caught and main returns
parse_error(store, files) == Returned("usage", store, files, NoProfile, FALSE)

\* no subcommand: the store is loaded, then the last else returns
no_mode(store, files) ==
    LET profiles == load_profiles(store)
    IN  IF profiles.exc # "none"
        THEN Raised(profiles.exc, store, files, NoProfile, FALSE)
        ELSE Returned("usage", store, files, NoProfile, FALSE)

----------------------------------------------------------------------------
(* The command-line tool: any MaxRuns runs, one after the other. *)

Names == {"p", "q"}

En == <<"e", "n">>
US == <<"U", "S">>
QueryA == <<"a">>
SevenDays == <<"7", "d">>
CnnCom == <<"c", "n", "n", ".", "c", "o", "m">>
\* 2024-1-5 is accepted by strptime, 2024-02-30 is no day of the calendar
Date_2024_1_5 == <<"2", "0", "2", "4", "-", "1", "-", "5">>
Date_2024_01_09 == <<"2", "0", "2", "4", "-", "0", "1", "-", "0", "9">>
Date_2024_02_30 == <<"2", "0", "2", "4", "-", "0", "2", "-", "3", "0">>

\* --period, --start_date and --end_date: a period, a range of dates, or an
\* end date that strptime rejects
TimeArgs == {<<JStr(SevenDays), JNone, JNone>>,
             <<JNone, JStr(Date_2024_1_5), JStr(Date_2024_01_09)>>,
             <<JNone, JNone, JStr(Date_2024_02_30)>>}

\* the arguments of add, as they reach SearchProfile(...)
AddArgs ==
    {[language |-> JStr(En), country |-> JStr(US), period |-> t[1],
      start_date |-> t[2], end_date |-> t[3],
      max_results |-> JInt(DefaultMaxResults),
      exclude_websites |-> ex, query |-> JStr(QueryA)] :
        t \in TimeArgs, ex \in {JNone, JList(<<CnnCom>>)}}

\* one --att option: the words that follow it
AttItems == {<<"max_results", <<"5", "0">>>>, <<"max_results", <<"7">>>>,
             <<"bogus_key", <<"1">>>>, <<"max_results">>}

\* args.att: None without --att, else the list of the options
AttArgs == {NoAtt} \cup {JList(l) : l \in SeqsUpTo(AttItems, MaxAtt) \ {<<>>}}

RecA1 == [url |-> "a", title |-> "t1"]
RecA2 == [url |-> "a", title |-> "t2"]
RecB1 == [url |-> "b", title |-> "t1"]
RecC1 == [url |-> "c", title |-> "t1"]

\* what google_news.get_news may return
ProviderNews == {<<>>, <<RecA1>>, <<RecA2, RecA1>>, <<RecB1>>}

NotLoaded == [exc |-> "none", isdict |-> FALSE, data |-> EmptyMap, notloaded |-> TRUE]

\* the state after a run that took args, loaded ld and ended as r
Ran(args, r, ld) ==
    /\ runs < MaxRuns
    /\ \E res \in {r} :
        /\ argv' = args
        /\ profilesFile' = res.store
        /\ archives' = res.files
        /\ profile' = res.obj
        /\ outcome' = Outcome(res)
        /\ searched' = res.searched
        /\ prevProfilesFile' = profilesFile
        /\ prevArchives' = archives
        /\ repeated' = FALSE
        /\ loaded' = ld
        /\ runs' = runs + 1

Use ==
    \E name \in Names, news \in ProviderNews :
        Ran([mode |-> "use", name |-> name],
            use_mode(profilesFile, archives, name, news),
            load_profiles(profilesFile))

Add ==
    \E name \in Names, kw \in AddArgs :
        Ran([mode |-> "add", name |-> name, kw |-> kw],
            add_mode(profilesFile, archives, name, kw),
            load_profiles(profilesFile))

Edit ==
    \E name \in Names, att \in AttArgs :
        Ran([mode |-> "edit", name |-> name, att |-> att],
            edit_profile(profilesFile, archives, name, att),
            load_profiles(profilesFile))

Del ==
    \E name \in Names :
        Ran([mode |-> "del", name |-> name],
            del_mode(profilesFile, archives, name),
            load_profiles(profilesFile))

ParseError ==
    Ran([mode |-> "rejected"], parse_error(profilesFile, archives), NotLoaded)

NoMode ==
    Ran([mode |-> "nomode"], no_mode(profilesFile, archives),
        load_profiles(profilesFile))

Init ==
    /\ profilesFile \in {AbsentStore, InvalidStore, UndecodableStore, ArrayStore,
                         ObjectStore(EmptyMap)}
    /\ archives = EmptyMap
    /\ argv = [mode |-> "none"]
    /\ profile = NoProfile
    /\ outcome = "none"
    /\ searched = FALSE
    /\ prevProfilesFile = profilesFile
    /\ prevArchives = archives
    /\ repeated = FALSE
    /\ loaded = NotLoaded
    /\ runs = 0

Next == Use \/ Add \/ Edit \/ Del \/ ParseError \/ NoMode

Spec == Init /\ [][Next]_vars

----------------------------------------------------------------------------
(* save_as_json on one profile, batch after batch. *)

Records == {RecA1, RecA2, RecB1, RecC1}

ArchiveProfile ==
    SearchProfile([language |-> JStr(En), country |-> JStr(US),
                   period |-> JStr(SevenDays), start_date |-> JNone,
                   end_date |-> JNone, max_results |-> JInt(DefaultMaxResults),
                   exclude_websites |-> JNone, query |-> JStr(QueryA)]).obj

ArchiveName == FileName(ArchiveProfile)

\* profile.results = batch; profile.save_as_json()
Archive ==
    \E batch \in SeqsUpTo(Records, MaxBatch) :
        \E saved \in {save_as_json(archives, [profile EXCEPT !.results = batch])} :
            /\ ~saved.raised => Len(saved.files[ArchiveName].data) <= MaxArchive
            /\ profile' = [profile EXCEPT !.results = batch]
            /\ archives' = saved.files
            /\ outcome' = IF saved.raised THEN "raised" ELSE "ok"
            /\ prevArchives' = archives
            /\ repeated' = (outcome # "none" /\ profile.results = batch)
            /\ UNCHANGED <<profilesFile, argv, searched, prevProfilesFile, loaded, runs>>

InitArchive ==
    /\ profilesFile = AbsentStore
    /\ archives \in {EmptyMap} \cup
                    {MapPut(EmptyMap, ArchiveName, f) :
                        f \in {ListFile(<<>>), InvalidFile, NonListFile,
                               UndecodableFile}}
    /\ argv = [mode |-> "none"]
    /\ profile = ArchiveProfile
    /\ outcome = "none"
    /\ searched = FALSE
    /\ prevProfilesFile = profilesFile
    /\ prevArchives = archives
    /\ repeated = FALSE
    /\ loaded = NotLoaded
    /\ runs = 0

NextArchive == Archive

SpecArchive == InitArchive /\ [][NextArchive]_vars

----------------------------------------------------------------------------
(* save_as_json on profiles whose names hold the characters of the pattern. *)

NameChars == {"/", "\\", ":", "*", "?", "\"", "<", ">", "|", "a", "_", "."}

NameProfiles ==
    {SearchProfile([language |-> JStr(l), country |-> JStr(c),
                    period |-> JStr(SevenDays), start_date |-> JNone,
                    end_date |-> JNone, max_results |-> JInt(DefaultMaxResults),
                    exclude_websites |-> JNone, query |-> JStr(q)]).obj :
        l \in {En, <<"e", ":">>}, c \in {US, <<"\\", "S">>},
        q \in SeqsUpTo(NameChars, MaxQueryLen)}

\* profile.save_as_json() with no results
ArchiveNothing ==
    LET saved == save_as_json(archives, profile)
    IN  /\ outcome = "none"
        /\ archives' = saved.files
        /\ outcome' = IF saved.raised THEN "raised" ELSE "ok"
        /\ prevArchives' = archives
        /\ UNCHANGED <<profilesFile, argv, profile, searched, prevProfilesFile,
                       repeated, loaded, runs>>

InitName ==
    /\ profilesFile = AbsentStore
    /\ archives = EmptyMap
    /\ argv = [mode |-> "none"]
    /\ profile \in NameProfiles
    /\ outcome = "none"
    /\ searched = FALSE
    /\ prevProfilesFile = profilesFile
    /\ prevArchives = archives
    /\ repeated = FALSE
    /\ loaded = NotLoaded
    /\ runs = 0

NextName == ArchiveNothing

SpecName == InitName /\ [][NextName]_vars

----------------------------------------------------------------------------
(* Properties. *)

\* the list an archive file holds; a missing or unparseable file holds none
ArchiveOf(files, file_name) ==
    IF file_name \in DOMAIN files /\ files[file_name].kind = "list"
    THEN files[file_name].data ELSE <<>>

UrlsOf(l) == {l[i].url : i \in DOMAIN l}

\* name is a key of the mapping the store file holds
Stored(name, file) == file.kind = "object" /\ name \in DOMAIN file.data

\* the store file yields a mapping (possibly the empty one) without name
Missing(name, file) ==
    file.kind \in {"absent", "invalid", "object"} /\ name \notin DOMAIN file.data

\* C1: once archive operations have run on an archive folder that started
\* empty, no two records of an archive file share a url.
C1_NoSharedUrl ==
    \A f \in DOMAIN archives :
        \A i, j \in DOMAIN ArchiveOf(archives, f) :
            ArchiveOf(archives, f)[i].url = ArchiveOf(archives, f)[j].url => i = j

\* the positions of the batch whose url does not occur in the existing archive
KeptPositions(E, N) == {i \in DOMAIN N : N[i].url \notin UrlsOf(E)}

NineChars == {"/", "\\", ":", "*", "?", "\"", "<", ">", "|"}

\* C3: the archive file is named {language}_{country}_{query}.json with every
\* one of the nine characters / \ : * ? " < > | replaced by an underscore and
\* every other character left as it is, in place.
C3_NineCharsReplaced ==
    outcome = "ok" =>
        LET raw == profile.language.str \o <<"_">> \o profile.country.str \o <<"_">>
                       \o profile.query.str \o <<".", "j", "s", "o", "n">>
        IN  DOMAIN archives =
                {[i \in 1..Len(raw) |-> IF raw[i] \in NineChars THEN "_" ELSE raw[i]]}

\* the run edited a stored profile with the single update max_results 50
EditedMaxResults50 ==
    /\ argv.mode = "edit"
    /\ Stored(argv.name, prevProfilesFile)
    /\ argv.att = JList(<< <<"max_results", <<"5", "0">>>> >>)

\* C4: editing a stored profile with max_results 50 changes only that field,
\* and the value stored is the integer 50, not the string "50".
C4_MaxResultsStoredAsInteger ==
    EditedMaxResults50 =>
        profilesFile =
            ObjectStore([prevProfilesFile.data EXCEPT
                            ![argv.name]["max_results"] = JInt(50)])

\* the run edited a stored profile with well-formed updates
Edited ==
    /\ argv.mode = "edit"
    /\ Stored(argv.name, prevProfilesFile)
    /\ argv.att # NoAtt
    /\ \A i \in DOMAIN argv.att.list : Len(argv.att.list[i]) = 2

\* every key of the updates is unknown to the stored profile
OnlyUnknownKeys ==
    \A i \in DOMAIN argv.att.list :
        argv.att.list[i][1] \notin DOMAIN prevProfilesFile.data[argv.name]

\* C5: an edit adds no key to the stored profile and leaves every field that
\* no update names as it was; when every update key is unknown the record
\* (and the rest of the store) is the same after the edit as before.
C5_UnknownKeysIgnored ==
    Edited =>
        /\ profilesFile.kind = "object"
        /\ DOMAIN profilesFile.data = DOMAIN prevProfilesFile.data
        /\ DOMAIN profilesFile.data[argv.name] = DOMAIN prevProfilesFile.data[argv.name]
        /\ \A k \in DOMAIN prevProfilesFile.data[argv.name] :
              (\A i \in DOMAIN argv.att.list : argv.att.list[i][1] # k)
                  => profilesFile.data[argv.name][k] = prevProfilesFile.data[argv.name][k]
        /\ OnlyUnknownKeys => profilesFile = prevProfilesFile

\* a stored profile was edited with the one update bogus_key 1
C5_Witness ==
    /\ Edited
    /\ argv.att = JList(<< <<"bogus_key", <<"1">>>> >>)
    /\ outcome = "ok"
    /\ profilesFile.data[argv.name] = prevProfilesFile.data[argv.name]

\* the run was del with a name that the store does not hold
DelMissing == argv.mode = "del" /\ Missing(argv.name, prevProfilesFile)

\* C6 as stated: the lookup fault of del with a name the store does not hold
\* is recovered by no handler and escapes main.
C6_FaultEscapesMain == DelMissing => outcome = "unhandled"

\* C6 as amended: the lookup fault of del with a name the store does not hold
\* is caught by the handler of main's try; the run ends normally and neither
\* the store file nor the archive changes.
C6_FaultCaughtByMain ==
    DelMissing =>
        /\ outcome = "caught"
        /\ profilesFile = prevProfilesFile
        /\ archives = prevArchives

\* del of a name missing from a store that holds another profile
C6_Witness ==
    /\ DelMissing
    /\ prevProfilesFile.kind = "object"
    /\ DOMAIN prevProfilesFile.data # {}
    /\ outcome = "caught"

\* the run was use or edit with a name that the store does not hold
UseOrEditUnknown ==
    /\ argv.mode \in {"use", "edit"}
    /\ ~Stored(argv.name, prevProfilesFile)

\* C7: use or edit with a name the store does not hold returns with no side
\* effect: the store file is as before, no search ran, no archive file was
\* created or changed.
C7_UnknownNameNoSideEffect ==
    UseOrEditUnknown =>
        /\ outcome \in {"not_found", "caught"}
        /\ Missing(argv.name, prevProfilesFile) => outcome = "not_found"
        /\ profilesFile = prevProfilesFile
        /\ archives = prevArchives
        /\ ~searched

\* use of an unknown name while the store holds a profile and an archive exists
C7_Witness ==
    /\ argv.mode = "use"
    /\ Missing(argv.name, prevProfilesFile)
    /\ DOMAIN prevProfilesFile.data # {}
    /\ \E f \in DOMAIN prevArchives : Len(ArchiveOf(prevArchives, f)) > 0
    /\ outcome = "not_found"

\* C8: add with name n and a profile leaves the store mapping n to the
\* persisted fields of that profile and every other name to what it held.
C8_AddInsertsOrOverwrites ==
    (argv.mode = "add" /\ profile # NoProfile) =>
        /\ profilesFile.kind = "object"
        /\ DOMAIN profilesFile.data = DOMAIN prevProfilesFile.data \cup {argv.name}
        /\ profilesFile.data[argv.name] = to_dict(profile)
        /\ \A n \in DOMAIN prevProfilesFile.data \ {argv.name} :
              profilesFile.data[n] = prevProfilesFile.data[n]

\* C9: whatever the store file holds, load_profiles raises nothing and returns
\* a mapping, the empty one when the file is absent or is not valid data.
C9_LoadNeverRaises ==
    (runs > 0 /\ "notloaded" \notin DOMAIN loaded) =>
        /\ loaded.exc = "none"
        /\ loaded.isdict
        /\ prevProfilesFile.kind \in {"absent", "invalid", "undecodable"}
              => loaded.data = EmptyMap

\* C10: archiving a batch a second time, right after archiving it, leaves the
\* archive file as the first archiving wrote it.
C10_SecondArchiveChangesNothing ==
    (repeated /\ outcome = "ok") => archives = prevArchives

\* a batch that repeats a url was archived twice in a row
C10_Witness ==
    /\ repeated
    /\ outcome = "ok"
    /\ Len(profile.results) = 2
    /\ profile.results[1].url = profile.results[2].url
    /\ Len(ArchiveOf(archives, ArchiveName)) = 3

=============================================================================
